---- MODULE Spec2Model ----
(***************************************************************************)
(* Workflow orchestration core of ai-frontend-automation:                  *)
(*   BaseAgent.executeTask / stop        (src/src/agents/BaseAgent.ts)     *)
(*   MainCoordinatorAgent scheduler      (src/src/demo/codeDisplayDemo.ts) *)
(* Every await of the source is an interleaving point; the code between    *)
(* two awaits is one atomic action.                                        *)
(***************************************************************************)
EXTENDS Integers, Sequences, FiniteSets, TLC

(* ------------------------------ bounds --------------------------------- *)
\* largest maxConcurrentTasks a worker is configured with
MaxConc == 2
\* largest retryAttempts a worker is configured with
MaxRetry == 3
\* number of inputs in one processPrompts / processJiraTasks batch
MaxInputs == 3
\* number of executeTask calls a client makes on workers directly
MaxCalls == 2
\* largest number of design references an issue analysis carries
MaxLinks == 2
\* number of registerAgent calls a coordinator receives
MaxRegistrations == 5

(* --------------------------- enumerations ------------------------------ *)
PENDING == "PENDING"
IN_PROGRESS == "IN_PROGRESS"
COMPLETED == "COMPLETED"
FAILED == "FAILED"
CANCELLED == "CANCELLED"

TaskStatus == {PENDING, IN_PROGRESS, COMPLETED, FAILED, CANCELLED}

AgentType == {"MAIN_COORDINATOR", "PROMPT_ANALYZER", "JIRA_ANALYZER",
              "FIGMA_DESIGNER", "CODE_GENERATOR", "GITHUB_MANAGER", "QA_TESTER"}

AgentTaskType == {"ANALYZE_PROMPT", "ANALYZE_JIRA_TASK", "EXTRACT_FIGMA_DESIGN",
                  "GENERATE_CODE", "CREATE_TESTS", "CREATE_PULL_REQUEST",
                  "REVIEW_CODE", "UPDATE_DOCUMENTATION"}

\* a value that is absent (undefined) in the source
Undefined == "undefined"
\* subAgents.get(type) when nothing is registered under type
NoAgent == "none"
\* the result object a successful performTask resolves with
ResultObj == "result"
\* a falsy value ('', 0, false, null) a performTask may resolve with
FalsyResult == ""
\* the message of the error a failing performTask rejects with
OperationError == "operation failed"
\* createEmptyResult() of the design extraction worker
EmptyResult == "empty result"
\* the message of the error extractFigmaDesigns throws
NoDesignsError == "no designs could be extracted"
\* the message of the error thrown by the default branch of a performTask
UnsupportedTaskType == "unsupported task type"

(* ----------------------------- environment ---------------------------- *)
EnvVars == {"OPENAI_API_KEY", "JIRA_HOST", "JIRA_USERNAME", "JIRA_API_TOKEN",
            "FIGMA_ACCESS_TOKEN", "GITHUB_TOKEN"}
\* requiredVars and optionalJiraVars of validateEnvironment
RequiredVars == {"OPENAI_API_KEY"}
OptionalJiraVars == {"JIRA_HOST", "JIRA_USERNAME", "JIRA_API_TOKEN"}
\* the message of the error validateEnvironment throws
MissingEnvError == "missing required environment variables"

(* ------------------------ objects (payloads) --------------------------- *)
\* An object is the set of its <<key, value>> entries.
\* {} of the source: an object with no keys
EmptyObj == {}

\* obj[key] = value of the source (an existing key is overwritten)
SetKey(obj, key, value) == {e \in obj : e[1] # key} \cup {<<key, value>>}

Keys(obj) == {e[1] : e \in obj}

(* --------------------------- step graphs ------------------------------- *)
NewStep(name, agentType, dependencies, input) ==
    [name |-> name, agentType |-> agentType, dependencies |-> dependencies,
     input |-> input, output |-> Undefined, status |-> PENDING, retryCount |-> 0]

PromptWorkflowSteps ==
    << NewStep("Analyze Prompt", "PROMPT_ANALYZER", << >>, {<<"prompt", "text">>}),
       NewStep("Extract Figma Design", "FIGMA_DESIGNER", <<"Analyze Prompt">>, EmptyObj),
       NewStep("Generate Code", "CODE_GENERATOR",
               <<"Analyze Prompt", "Extract Figma Design">>, EmptyObj),
       NewStep("Visual QA Testing", "QA_TESTER",
               <<"Generate Code", "Extract Figma Design">>, EmptyObj),
       NewStep("Create Tests", "CODE_GENERATOR", <<"Visual QA Testing">>, EmptyObj),
       NewStep("Create Pull Request", "GITHUB_MANAGER",
               <<"Generate Code", "Create Tests", "Visual QA Testing">>, EmptyObj) >>

JiraWorkflowSteps ==
    << NewStep("Analyze Jira Task", "JIRA_ANALYZER", << >>, {<<"taskNumber", "KEY-1">>}),
       NewStep("Extract Figma Design", "FIGMA_DESIGNER", <<"Analyze Jira Task">>, EmptyObj),
       NewStep("Generate Code", "CODE_GENERATOR",
               <<"Analyze Jira Task", "Extract Figma Design">>, EmptyObj),
       NewStep("Visual QA Testing", "QA_TESTER",
               <<"Generate Code", "Extract Figma Design">>, EmptyObj),
       NewStep("Create Tests", "CODE_GENERATOR", <<"Visual QA Testing">>, EmptyObj),
       NewStep("Create Pull Request", "GITHUB_MANAGER",
               <<"Generate Code", "Create Tests", "Visual QA Testing">>, EmptyObj) >>

\* Step graphs handed to executeWorkflowSteps besides the two fixed ones: the
\* parameter steps: WorkflowStep[] of the method ranges over these.
\* diamond: two independent steps of different workers in one frontier
DiamondSteps ==
    << NewStep("Analyze Prompt", "PROMPT_ANALYZER", << >>, {<<"prompt", "text">>}),
       NewStep("Extract Figma Design", "FIGMA_DESIGNER", <<"Analyze Prompt">>, EmptyObj),
       NewStep("Generate Code", "CODE_GENERATOR", <<"Analyze Prompt">>, EmptyObj),
       NewStep("Create Pull Request", "GITHUB_MANAGER",
               <<"Extract Figma Design", "Generate Code">>, EmptyObj) >>

\* fan: three independent steps routed to the same worker type
FanSteps ==
    << NewStep("Generate Code", "CODE_GENERATOR", << >>, EmptyObj),
       NewStep("Create Tests", "CODE_GENERATOR", << >>, EmptyObj),
       NewStep("Visual QA Testing", "CODE_GENERATOR", << >>, EmptyObj),
       NewStep("Create Pull Request", "GITHUB_MANAGER",
               <<"Generate Code", "Create Tests">>, EmptyObj) >>

\* dangling: "Generate Code" names a dependency no step carries
DanglingSteps ==
    << NewStep("Analyze Prompt", "PROMPT_ANALYZER", << >>, {<<"prompt", "text">>}),
       NewStep("Extract Figma Design", "FIGMA_DESIGNER", <<"Analyze Prompt">>, EmptyObj),
       NewStep("Generate Code", "CODE_GENERATOR",
               <<"Analyze Prompt", "Review Design">>, EmptyObj),
       NewStep("Create Tests", "CODE_GENERATOR", <<"Generate Code">>, EmptyObj) >>

\* miswired: a step routed to a worker without the capability, and a step
\* whose name has no task type
MiswiredSteps ==
    << NewStep("Analyze Prompt", "PROMPT_ANALYZER", << >>, {<<"prompt", "text">>}),
       NewStep("Generate Code", "QA_TESTER", <<"Analyze Prompt">>, EmptyObj),
       NewStep("Deploy", "GITHUB_MANAGER", <<"Analyze Prompt">>, EmptyObj) >>

\* cycle: two steps that wait for each other
CycleSteps ==
    << NewStep("Generate Code", "CODE_GENERATOR", <<"Create Tests">>, EmptyObj),
       NewStep("Create Tests", "CODE_GENERATOR", <<"Generate Code">>, EmptyObj) >>

\* chain: A -> B -> C, each step naming only its predecessor
ChainSteps ==
    << NewStep("Analyze Prompt", "PROMPT_ANALYZER", << >>, {<<"prompt", "text">>}),
       NewStep("Extract Figma Design", "FIGMA_DESIGNER", <<"Analyze Prompt">>, EmptyObj),
       NewStep("Generate Code", "CODE_GENERATOR", <<"Extract Figma Design">>, EmptyObj) >>

\* collide: "Generate Code" declares an input entry under the key that the
\* output of its dependency is stored under
CollideSteps ==
    << NewStep("Analyze Prompt", "PROMPT_ANALYZER", << >>, {<<"prompt", "text">>}),
       NewStep("Generate Code", "CODE_GENERATOR", <<"Analyze Prompt">>,
               {<<"analyze_prompt", "declared">>, <<"component", "Button">>}) >>

\* unmapped: a single step whose name has no task type
UnmappedSteps ==
    << NewStep("Deploy", "GITHUB_MANAGER", << >>, EmptyObj) >>

GraphInputs ==
    {"diamond", "fan", "dangling", "miswired", "cycle", "chain", "collide", "unmapped"}

\* the step list a run builds for one input
WorkflowStepsFor(input) ==
    CASE input = "prompt"   -> PromptWorkflowSteps
      [] input = "jira"     -> JiraWorkflowSteps
      [] input = "diamond"  -> DiamondSteps
      [] input = "fan"      -> FanSteps
      [] input = "dangling" -> DanglingSteps
      [] input = "miswired" -> MiswiredSteps
      [] input = "cycle"    -> CycleSteps
      [] input = "chain"    -> ChainSteps
      [] input = "collide"  -> CollideSteps
      [] input = "unmapped" -> UnmappedSteps

(* ------------------------------ workers -------------------------------- *)
AgentIds == {"prompt-analyzer", "jira-analyzer", "figma-designer",
             "code-generator", "qa-tester", "github-manager"}

\* type and capabilities each worker class passes to the BaseAgent constructor
AgentClass(a) ==
    CASE a = "prompt-analyzer" ->
           [type |-> "PROMPT_ANALYZER", supportedOperations |-> {"ANALYZE_PROMPT"}]
      [] a = "jira-analyzer" ->
           [type |-> "JIRA_ANALYZER", supportedOperations |-> {"ANALYZE_JIRA_TASK"}]
      [] a = "figma-designer" ->
           [type |-> "FIGMA_DESIGNER", supportedOperations |-> {"EXTRACT_FIGMA_DESIGN"}]
      [] a = "qa-tester" ->
           [type |-> "QA_TESTER", supportedOperations |-> {"CREATE_TESTS"}]
      [] a = "code-generator" ->
           [type |-> "CODE_GENERATOR",
            supportedOperations |-> {"GENERATE_CODE", "CREATE_TESTS"}]
      [] a = "github-manager" ->
           [type |-> "GITHUB_MANAGER", supportedOperations |-> {"CREATE_PULL_REQUEST"}]
      [] a = "qa-tester-2" ->
           [type |-> "QA_TESTER", supportedOperations |-> {"CREATE_TESTS"}]
      [] a = "main-coordinator" ->
           [type |-> "MAIN_COORDINATOR",
            supportedOperations |-> {"ANALYZE_JIRA_TASK", "EXTRACT_FIGMA_DESIGN",
                                     "GENERATE_CODE", "CREATE_TESTS",
                                     "CREATE_PULL_REQUEST"}]

\* the task types the switch of each worker's performTask has a case for
HandledOperations(a) ==
    CASE a = "main-coordinator" -> {"ANALYZE_JIRA_TASK"}
      [] a = "prompt-analyzer"  -> {"ANALYZE_PROMPT"}
      [] a = "jira-analyzer"    -> {"ANALYZE_JIRA_TASK"}
      [] a = "figma-designer"   -> {"EXTRACT_FIGMA_DESIGN"}
      [] a = "qa-tester"        -> {"CREATE_TESTS"}
      [] OTHER                  -> AgentClass(a).supportedOperations

\* new XAgent({...baseAgentConfig}): the state of a worker after construction
NewAgent(a, maxConcurrentTasks, retryAttempts) ==
    [id |-> a, type |-> AgentClass(a).type,
     supportedOperations |-> AgentClass(a).supportedOperations,
     maxConcurrentTasks |-> maxConcurrentTasks, retryAttempts |-> retryAttempts]

\* new Map(): the subAgents of a coordinator just constructed
EmptyRegistry == [t \in AgentType |-> NoAgent]

\* a registration that keeps the worker already held for the type
MutRegisterAgent(registry, a) ==
    IF registry[AgentClass(a).type] = NoAgent
    THEN [registry EXCEPT ![AgentClass(a).type] = a]
    ELSE registry

\* registerAgent(agent): subAgents.set(agent.getStatus().type, agent)
registerAgent(registry, a) == [registry EXCEPT ![AgentClass(a).type] = a]

\* subAgents after the registerAgent calls of a set of workers
RegistryOf(registered) ==
    [t \in AgentType |->
        IF \E a \in registered : AgentClass(a).type = t
        THEN CHOOSE a \in registered : AgentClass(a).type = t
        ELSE NoAgent]

\* the workers index.ts registers, and a registry with a worker of every type
\* the fixed graphs name
IndexRegistered == {"jira-analyzer", "figma-designer", "qa-tester"}
FullRegistered == AgentIds
\* the workers initializeSpecializedAgents registers when every
\* configuration key is set
SystemRegistered == {"prompt-analyzer", "jira-analyzer", "figma-designer", "qa-tester"}

\* the order in which a set of workers is registered
RegistrationOrder ==
    <<"prompt-analyzer", "jira-analyzer", "figma-designer", "code-generator",
      "qa-tester", "github-manager">>
RegistrationsOf(workers) == SelectSeq(RegistrationOrder, LAMBDA a : a \in workers)

(* ------------------------------- state --------------------------------- *)
VARIABLES
    agents,           \* worker id -> configuration held by the BaseAgent fields
    currentTasks,     \* worker id -> BaseAgent.currentTasks (set of task records)
    subAgents,        \* MainCoordinatorAgent.subAgents: AgentType -> worker id
    activeWorkflows,  \* MainCoordinatorAgent.activeWorkflows (its key set)
    inputs,           \* the batch handed to processPrompts / processJiraTasks
    inputIdx,         \* index of the input whose run is executing or next
    workflowId,       \* id of the executing run, 0 when none executes
    steps,            \* the WorkflowStep[] of the executing (or last) run
    completedSteps,   \* completedSteps of executeWorkflowSteps
    calls,            \* per step: the executeWorkflowStep call of the frontier
    schedPc,          \* "idle" | "await" (suspended in Promise.allSettled)
    runLog,           \* per processed input: how its run ended
    opFailed,         \* whether a performTask of the executing run has failed
    nextId,           \* source of uuidv4() values
    env,              \* process.env: the configuration keys that are set
    isInitialized,    \* AIFrontendAutomationSystem.isInitialized
    initError,        \* the error initialize() rejected with, if it did
    registered        \* the workers handed to registerAgent, in call order

vars == <<agents, currentTasks, subAgents, activeWorkflows, inputs, inputIdx,
          workflowId, steps, completedSteps, calls, schedPc, runLog, opFailed,
          nextId, env, isInitialized, initError, registered>>

\* the state of the system object, which no worker or scheduler step writes
sysVars == <<env, isInitialized, initError, registered>>

\* a step for which the current frontier holds no call
NoCall ==
    [pc |-> "none", agent |-> NoAgent, taskId |-> 0, type |-> Undefined,
     input |-> EmptyObj, attempt |-> 0, performCount |-> 0, delays |-> << >>,
     value |-> Undefined, error |-> Undefined, stopped |-> FALSE,
     errors |-> << >>]

Batches ==
    {[i \in 1..MaxInputs |-> "prompt"], [i \in 1..MaxInputs |-> "jira"]}
        \cup {<<g>> : g \in GraphInputs}

\* the coordinator and its workers as constructed, with the batch of inputs
\* handed to processPrompts / processJiraTasks drawn from batches and the
\* set of registered workers drawn from registries
InitWith(batches, registries) ==
    /\ \E m \in 1..MaxConc, r \in 0..MaxRetry :
          agents = [a \in AgentIds |-> NewAgent(a, m, r)]
    /\ currentTasks = [a \in AgentIds |-> {}]
    /\ \E reg \in registries :
          /\ subAgents = RegistryOf(reg)
          /\ registered = RegistrationsOf(reg)
    /\ env = EnvVars
    /\ isInitialized = TRUE
    /\ initError = Undefined
    /\ activeWorkflows = {}
    /\ inputs \in batches
    /\ inputIdx = 1
    /\ workflowId = 0
    /\ steps = << >>
    /\ completedSteps = {}
    /\ calls = << >>
    /\ schedPc = "idle"
    /\ runLog = << >>
    /\ opFailed = FALSE
    /\ nextId = 1

(* ------------------------- BaseAgent (worker) -------------------------- *)
Min(S) == CHOOSE x \in S : \A y \in S : x <= y

\* a map that holds the running item only: the set drops every other entry
MutMapSet(tasks, task) == {task}

\* Map.set(task.id, task) on a currentTasks map
MapSet(tasks, task) == {t \in tasks : t.id # task.id} \cup {task}

\* the AgentTask object executeWorkflowStep builds; errors is absent there,
\* which the worker reads as the empty list (task.errors || [])
NewTask(id, type, input) ==
    [id |-> id, type |-> type, input |-> input, status |-> PENDING,
     output |-> Undefined, errors |-> << >>]

canHandleTask(agent, task) == task.type \in agent.supportedOperations

\* a capacity test that is off by one
MutAtCapacity(tasks, maxConcurrentTasks) == Cardinality(tasks) > maxConcurrentTasks

\* the capacity test of executeTask, on the worker's map and its limit
AtCapacity(tasks, maxConcurrentTasks) == Cardinality(tasks) >= maxConcurrentTasks

\* a retry test that allows one attempt too many
MutRetriesExhausted(attempt, retryAttempts) == attempt > retryAttempts

\* the test that ends the retry loop after a failed attempt
RetriesExhausted(attempt, retryAttempts) == attempt >= retryAttempts

\* milliseconds slept after the failed attempt number attempt
BackoffDelay(attempt) == 1000 * attempt

\* a head of executeTask that tests the capability before the capacity
MutExecuteTaskEntry(a, task) ==
    IF ~canHandleTask(agents[a], task)
    THEN [pc |-> "rejected", error |-> "unsupported", tasks |-> currentTasks[a]]
    ELSE IF AtCapacity(currentTasks[a], agents[a].maxConcurrentTasks)
    THEN [pc |-> "rejected", error |-> "capacity", tasks |-> currentTasks[a]]
    ELSE LET tracked == MapSet(currentTasks[a], [task EXCEPT !.status = IN_PROGRESS])
         IN  IF 0 < agents[a].retryAttempts
             THEN [pc |-> "perform", error |-> Undefined, tasks |-> tracked]
             ELSE [pc |-> "rejected", error |-> "unexpected end of retry loop",
                   tasks |-> tracked]

\* The synchronous head of executeTask(task) on worker a: both precondition
\* checks, the IN_PROGRESS entry and the first test of the retry loop.
\* Gives the call's next position, its error and the worker's map.
executeTaskEntry(a, task) ==
    IF AtCapacity(currentTasks[a], agents[a].maxConcurrentTasks)
    THEN [pc |-> "rejected", error |-> "capacity", tasks |-> currentTasks[a]]
    ELSE IF ~canHandleTask(agents[a], task)
    THEN [pc |-> "rejected", error |-> "unsupported", tasks |-> currentTasks[a]]
    ELSE LET tracked == MapSet(currentTasks[a], [task EXCEPT !.status = IN_PROGRESS])
         IN  IF 0 < agents[a].retryAttempts
             THEN [pc |-> "perform", error |-> Undefined, tasks |-> tracked]
             ELSE [pc |-> "rejected", error |-> "unexpected end of retry loop",
                   tasks |-> tracked]

\* a task argument that has lost the errors it carried
MutTaskOf(i) == NewTask(calls[i].taskId, calls[i].type, calls[i].input)

\* the task argument of the executeTask call of step i
TaskOf(i) ==
    [NewTask(calls[i].taskId, calls[i].type, calls[i].input)
        EXCEPT !.errors = calls[i].errors]

\* The numbers of references extractFigmaDesigns may find in its input:
\* figmaLinks || analyze_jira_task?.figmaLinks || []. No input of the model
\* has a figmaLinks entry of its own; an issue analysis carries any number.
LinksOf(input) ==
    IF "analyze_jira_task" \in Keys(input) THEN 0..MaxLinks ELSE {0}

\* extractFigmaDesigns on links references of which resolved are resolved by
\* the design client: ok tells whether it returns, value is the result or
\* the message of the error thrown
extractFigmaDesigns(links, resolved) ==
    IF links = 0 THEN [ok |-> TRUE, value |-> EmptyResult]
    ELSE IF resolved = 0 THEN [ok |-> FALSE, value |-> NoDesignsError]
    ELSE [ok |-> TRUE, value |-> ResultObj]

\* the outcomes of the design extraction worker's performTask on an input
FigmaOutcomes(input) ==
    {extractFigmaDesigns(p[1], p[2]) :
        p \in {q \in LinksOf(input) \X (0..MaxLinks) : q[2] <= q[1]}}

\* The values performTask(task) of call c can resolve with. performTask is
\* declared Promise<any>: the analysis, extraction and QA workers resolve with
\* a result object, a code generator may resolve with any value.
PerformResults(c) ==
    IF c.type \notin HandledOperations(c.agent) THEN {}
    ELSE IF c.agent = "main-coordinator" THEN {Undefined}
    ELSE IF c.agent = "figma-designer"
    THEN {o.value : o \in {x \in FigmaOutcomes(c.input) : x.ok}}
    ELSE IF c.agent = "code-generator" /\ c.type = "GENERATE_CODE"
    THEN {ResultObj, FalsyResult}
    ELSE {ResultObj}

\* The messages of the errors performTask(task) of call c can reject with:
\* the default branch of the switch throws for a type without a case; the
\* coordinator's only case returns processJiraTasks, which catches every
\* failure; design extraction throws when no reference resolves; any other
\* operation may fail.
PerformErrors(c) ==
    IF c.type \notin HandledOperations(c.agent) THEN {UnsupportedTaskType}
    ELSE IF c.agent = "main-coordinator" THEN {}
    ELSE IF c.agent = "figma-designer"
    THEN {o.value : o \in {x \in FigmaOutcomes(c.input) : ~x.ok}}
    ELSE {OperationError}

\* performTask of call i resolves: the entry is replaced by completedTask and
\* executeTask returns the result
PerformSucceeds(i) ==
    /\ i \in DOMAIN calls
    /\ calls[i].pc = "perform"
    /\ \E result \in PerformResults(calls[i]) :
          LET a == calls[i].agent
              completedTask == [TaskOf(i) EXCEPT !.status = COMPLETED,
                                                 !.output = result]
          IN  /\ currentTasks' = [currentTasks EXCEPT ![a] = MapSet(@, completedTask)]
              /\ calls' = [calls EXCEPT ![i].pc = "fulfilled", ![i].value = result]
    /\ UNCHANGED <<sysVars, agents, subAgents, activeWorkflows, inputs, inputIdx, workflowId,
                   steps, completedSteps, schedPc, runLog, opFailed, nextId>>

\* performTask of call i rejects: the catch block of the retry loop
PerformFails(i) ==
    /\ i \in DOMAIN calls
    /\ calls[i].pc = "perform"
    /\ \E error \in PerformErrors(calls[i]) :
          LET a == calls[i].agent
              attempt == calls[i].attempt + 1
              failedTask == [TaskOf(i) EXCEPT !.status = FAILED,
                                              !.errors = Append(@, error)]
          IN  IF RetriesExhausted(attempt, agents[a].retryAttempts)
              THEN /\ currentTasks' = [currentTasks EXCEPT ![a] = MapSet(@, failedTask)]
                   /\ calls' = [calls EXCEPT ![i].pc = "rejected",
                                             ![i].attempt = attempt,
                                             ![i].error = error]
              ELSE /\ calls' = [calls EXCEPT ![i].pc = "backoff",
                                             ![i].attempt = attempt,
                                             ![i].delays = Append(@, BackoffDelay(attempt))]
                   /\ UNCHANGED currentTasks
    /\ opFailed' = TRUE
    /\ UNCHANGED <<sysVars, agents, subAgents, activeWorkflows, inputs, inputIdx, workflowId,
                   steps, completedSteps, schedPc, runLog, nextId>>

\* the backoff timer of call i fires: the loop condition is tested again and
\* performTask is invoked for the next attempt
BackoffDone(i) ==
    /\ i \in DOMAIN calls
    /\ calls[i].pc = "backoff"
    /\ IF calls[i].attempt < agents[calls[i].agent].retryAttempts
       THEN calls' = [calls EXCEPT ![i].pc = "perform", ![i].performCount = @ + 1]
       ELSE calls' = [calls EXCEPT ![i].pc = "rejected",
                                   ![i].error = "unexpected end of retry loop"]
    /\ UNCHANGED <<sysVars, agents, currentTasks, subAgents, activeWorkflows, inputs, inputIdx,
                   workflowId, steps, completedSteps, schedPc, runLog, opFailed, nextId>>

\* stop() of worker a: every IN_PROGRESS entry becomes CANCELLED
Stop(a) ==
    /\ currentTasks' = [currentTasks EXCEPT ![a] =
            {IF t.status = IN_PROGRESS THEN [t EXCEPT !.status = CANCELLED] ELSE t
                : t \in @}]
    /\ calls' = [i \in DOMAIN calls |->
            IF /\ calls[i].agent = a
               /\ \E t \in currentTasks[a] :
                      t.id = calls[i].taskId /\ t.status = IN_PROGRESS
            THEN [calls[i] EXCEPT !.stopped = TRUE]
            ELSE calls[i]]
    /\ UNCHANGED <<sysVars, agents, subAgents, activeWorkflows, inputs, inputIdx, workflowId,
                   steps, completedSteps, schedPc, runLog, opFailed, nextId>>

(* -------------------- MainCoordinatorAgent (scheduler) ------------------ *)
\* thrown by mapStepToTaskType for a name without a case
UnknownStepName == "unknown step name"

mapStepToTaskType(stepName) ==
    CASE stepName = "Analyze Prompt"       -> "ANALYZE_PROMPT"
      [] stepName = "Analyze Jira Task"    -> "ANALYZE_JIRA_TASK"
      [] stepName = "Extract Figma Design" -> "EXTRACT_FIGMA_DESIGN"
      [] stepName = "Generate Code"        -> "GENERATE_CODE"
      [] stepName = "Visual QA Testing"    -> "CREATE_TESTS"
      [] stepName = "Create Tests"         -> "CREATE_TESTS"
      [] stepName = "Create Pull Request"  -> "CREATE_PULL_REQUEST"
      [] OTHER                             -> UnknownStepName

\* dependency.replace(/\s+/g, '_').toLowerCase() on the step names in use
EnrichKey(dependency) ==
    CASE dependency = "Analyze Prompt"       -> "analyze_prompt"
      [] dependency = "Analyze Jira Task"    -> "analyze_jira_task"
      [] dependency = "Extract Figma Design" -> "extract_figma_design"
      [] dependency = "Generate Code"        -> "generate_code"
      [] dependency = "Visual QA Testing"    -> "visual_qa_testing"
      [] dependency = "Create Tests"         -> "create_tests"
      [] dependency = "Create Pull Request"  -> "create_pull_request"
      [] dependency = "Review Design"        -> "review_design"
      [] dependency = "Deploy"               -> "deploy"

\* JavaScript truthiness of a stored output
Truthy(v) == v \notin {Undefined, FalsyResult}

\* a lookup that finds no step
MutFindOutput(workflow, dependency) == Undefined

\* workflow.find(s => s.name === dependency)?.output
FindOutput(workflow, dependency) ==
    LET found == {k \in DOMAIN workflow : workflow[k].name = dependency}
    IN  IF found = {} THEN Undefined ELSE workflow[Min(found)].output

RECURSIVE EnrichFrom(_, _, _)
EnrichFrom(enrichedInput, dependencies, workflow) ==
    IF dependencies = << >> THEN enrichedInput
    ELSE LET dependency == Head(dependencies)
             out == FindOutput(workflow, dependency)
         IN  EnrichFrom(IF Truthy(out)
                        THEN SetKey(enrichedInput, EnrichKey(dependency), out)
                        ELSE enrichedInput,
                        Tail(dependencies), workflow)

\* enrichStepInput(workflowId, step), with registry the active-runs map and
\* workflow the step list stored under workflowId
enrichStepInput(registry, wid, workflow, step) ==
    IF wid \notin registry THEN step.input
    ELSE EnrichFrom(step.input, step.dependencies, workflow)

\* a filter that forgets the status test
MutReadyAgain(st, completed) ==
    {i \in DOMAIN st :
        \A k \in DOMAIN st[i].dependencies : st[i].dependencies[k] \in completed}

\* a filter that forgets the dependency test
MutReadySteps(st, completed) == {i \in DOMAIN st : st[i].status = PENDING}

\* indices of steps.filter(PENDING and every dependency completed)
ReadySteps(st, completed) ==
    {i \in DOMAIN st :
        /\ st[i].status = PENDING
        /\ \A k \in DOMAIN st[i].dependencies : st[i].dependencies[k] \in completed}

\* executeWorkflowStep up to its first await: the worker lookup and the
\* enriched input
DispatchStep(registry, wid, st, i) ==
    LET agent == subAgents[st[i].agentType]
    IN  IF agent = NoAgent
        THEN [NoCall EXCEPT !.pc = "rejected", !.error = "no agent registered"]
        ELSE [NoCall EXCEPT !.pc = "enrich", !.agent = agent,
                            !.input = enrichStepInput(registry, wid, st, st[i])]

\* how a run ended, as the batch driver sees and logs it
RunEnd(outcome, error, step, reason) ==
    [input |-> inputs[inputIdx], outcome |-> outcome, error |-> error,
     step |-> step, reason |-> reason, opFailed |-> opFailed]

\* a run end that leaves a failed run in the registry
MutFinishRun(registry, wid, st, completed, end) ==
    /\ activeWorkflows' = IF end.outcome = "completed" THEN registry \ {wid}
                                                        ELSE registry
    /\ workflowId' = 0
    /\ steps' = st
    /\ completedSteps' = completed
    /\ calls' = [i \in DOMAIN st |-> NoCall]
    /\ schedPc' = "idle"
    /\ runLog' = Append(runLog, end)
    /\ inputIdx' = inputIdx + 1

\* the finally block of executePromptWorkflow / executeJiraWorkflow and the
\* catch of the batch loop: the run leaves the registry and is logged
FinishRun(registry, wid, st, completed, end) ==
    /\ activeWorkflows' = registry \ {wid}
    /\ workflowId' = 0
    /\ steps' = st
    /\ completedSteps' = completed
    /\ calls' = [i \in DOMAIN st |-> NoCall]
    /\ schedPc' = "idle"
    /\ runLog' = Append(runLog, end)
    /\ inputIdx' = inputIdx + 1

\* a loop without the deadlock test: an empty frontier is awaited
MutLoopFrom(registry, wid, st, completed) ==
    IF ~(Cardinality(completed) < Len(st))
    THEN FinishRun(registry, wid, st, completed,
                   RunEnd("completed", "none", "none", "none"))
    ELSE /\ activeWorkflows' = registry
         /\ workflowId' = wid
         /\ steps' = st
         /\ completedSteps' = completed
         /\ calls' = [i \in DOMAIN st |->
                        IF i \in ReadySteps(st, completed)
                        THEN DispatchStep(registry, wid, st, i)
                        ELSE NoCall]
         /\ schedPc' = "await"
         /\ UNCHANGED <<runLog, inputIdx>>

\* executeWorkflowSteps from the head of its while loop, with st the steps
\* and completed the completedSteps set, in run wid
LoopFrom(registry, wid, st, completed) ==
    IF ~(Cardinality(completed) < Len(st))
    THEN FinishRun(registry, wid, st, completed,
                   RunEnd("completed", "none", "none", "none"))
    ELSE LET readySteps == ReadySteps(st, completed)
         IN  IF readySteps = {}
             THEN FinishRun(registry, wid, st, completed,
                            RunEnd("rejected", "deadlock", "none", "none"))
             ELSE /\ activeWorkflows' = registry
                  /\ workflowId' = wid
                  /\ steps' = st
                  /\ completedSteps' = completed
                  /\ calls' = [i \in DOMAIN st |->
                                 IF i \in readySteps
                                 THEN DispatchStep(registry, wid, st, i)
                                 ELSE NoCall]
                  /\ schedPc' = "await"
                  /\ UNCHANGED <<runLog, inputIdx>>

\* processPrompts / processJiraTasks take the next input: the run is built,
\* registered and executed up to the await of its first frontier
ExecuteWorkflow ==
    /\ schedPc = "idle"
    /\ inputIdx <= Len(inputs)
    /\ LET wid == nextId
       IN  LoopFrom(activeWorkflows \cup {wid}, wid,
                    WorkflowStepsFor(inputs[inputIdx]), {})
    /\ nextId' = nextId + 1
    /\ opFailed' = FALSE
    /\ UNCHANGED <<sysVars, agents, currentTasks, subAgents, inputs>>

\* executeWorkflowStep of step i resumes after the await of enrichStepInput:
\* the task is built, the step becomes IN_PROGRESS, executeTask is entered
StartTask(i) ==
    /\ i \in DOMAIN calls
    /\ calls[i].pc = "enrich"
    /\ LET type == mapStepToTaskType(steps[i].name)
           a == calls[i].agent
           task == NewTask(nextId, type, calls[i].input)
           entry == executeTaskEntry(a, task)
       IN  IF type = UnknownStepName
           THEN /\ calls' = [calls EXCEPT ![i].pc = "rejected",
                                          ![i].error = UnknownStepName]
                /\ UNCHANGED <<steps, currentTasks>>
           ELSE /\ steps' = [steps EXCEPT ![i].status = IN_PROGRESS]
                /\ currentTasks' = [currentTasks EXCEPT ![a] = entry.tasks]
                /\ calls' = [calls EXCEPT
                       ![i].pc = entry.pc,
                       ![i].error = entry.error,
                       ![i].taskId = task.id,
                       ![i].type = type,
                       ![i].performCount = IF entry.pc = "perform" THEN 1 ELSE 0]
    /\ nextId' = nextId + 1
    /\ UNCHANGED <<sysVars, agents, subAgents, activeWorkflows, inputs, inputIdx, workflowId,
                   completedSteps, schedPc, runLog, opFailed>>

\* a wait that ends with the first result (Promise.race)
MutSettled(c) == c.pc \in {"none", "fulfilled", "rejected", "enrich", "perform", "backoff"}

Settled(c) == c.pc \in {"none", "fulfilled", "rejected"}

\* a result loop that never takes the rejected branch
MutFirstRejected(cs) == 0

\* index of the first rejected result in frontier order, 0 when all fulfilled
FirstRejected(cs) ==
    LET rejected == {i \in DOMAIN cs : cs[i].pc = "rejected"}
    IN  IF rejected = {} THEN 0 ELSE Min(rejected)

\* Promise.allSettled resolves: the results are processed in frontier order;
\* the first rejected one aborts the run, otherwise the loop goes on
FrontierSettled ==
    /\ schedPc = "await"
    /\ \A i \in DOMAIN calls : Settled(calls[i])
    /\ LET firstRejected == FirstRejected(calls)
           processed == {i \in DOMAIN calls :
                            /\ calls[i].pc = "fulfilled"
                            /\ (firstRejected = 0 \/ i < firstRejected)}
           st == [i \in DOMAIN steps |->
                    IF i \in processed
                    THEN [steps[i] EXCEPT !.status = COMPLETED,
                                          !.output = calls[i].value]
                    ELSE IF i = firstRejected
                    THEN [steps[i] EXCEPT !.status = FAILED]
                    ELSE steps[i]]
           completed == completedSteps \cup {steps[i].name : i \in processed}
       IN  IF firstRejected # 0
           THEN FinishRun(activeWorkflows, workflowId, st, completed,
                          RunEnd("rejected", "step failed", steps[firstRejected].name,
                                 calls[firstRejected].error))
           ELSE LoopFrom(activeWorkflows, workflowId, st, completed)
    /\ UNCHANGED <<sysVars, agents, currentTasks, subAgents, inputs, opFailed, nextId>>

Next ==
    \/ ExecuteWorkflow
    \/ FrontierSettled
    \/ \E i \in DOMAIN calls : StartTask(i)
    \/ \E i \in DOMAIN calls : PerformSucceeds(i)
    \/ \E i \in DOMAIN calls : PerformFails(i)
    \/ \E i \in DOMAIN calls : BackoffDone(i)
    \/ \E a \in AgentIds : Stop(a)

Init == InitWith(Batches, {IndexRegistered, FullRegistered})

Spec == Init /\ [][Next]_vars

(* ------------------ one run under a fair event loop -------------------- *)
\* batches of one input: one call of executeWorkflowSteps per behaviour
SingleRuns == {<<g>> : g \in GraphInputs \cup {"prompt", "jira"}}

InitLive == InitWith(SingleRuns, {IndexRegistered, SystemRegistered, FullRegistered})

\* The event loop runs every continuation that is ready: the resumption
\* after an await, the timer of a backoff, the processing of a settled
\* frontier. A performTask call settles, one way or the other (the worker's
\* operation is assumed to return or throw). stop() is a client's call and
\* may never come.
Fairness ==
    /\ WF_vars(FrontierSettled)
    /\ \A i \in DOMAIN PromptWorkflowSteps :
          /\ WF_vars(StartTask(i))
          /\ WF_vars(BackoffDone(i))
          /\ WF_vars(PerformSucceeds(i) \/ PerformFails(i))

SpecLive == InitLive /\ [][Next]_vars /\ Fairness

(* ------------------ workers called without the scheduler --------------- *)
\* the workers a client calls executeTask on: the coordinator, itself a
\* BaseAgent, and the QA worker
DirectAgents == {"main-coordinator", "qa-tester"}

\* The tasks the client hands over. A task may carry errors of an earlier
\* execution. The coordinator's ANALYZE_JIRA_TASK input is the empty batch,
\* which processJiraTasks finishes without starting a run.
DirectTasks ==
    { [agent |-> "main-coordinator", type |-> "ANALYZE_JIRA_TASK",
       input |-> {<<"taskNumbers", "[]">>}, errors |-> << >>],
      [agent |-> "main-coordinator", type |-> "GENERATE_CODE",
       input |-> EmptyObj, errors |-> <<"earlier error">>],
      [agent |-> "main-coordinator", type |-> "REVIEW_CODE",
       input |-> EmptyObj, errors |-> << >>],
      [agent |-> "qa-tester", type |-> "CREATE_TESTS",
       input |-> EmptyObj, errors |-> <<"earlier error">>],
      [agent |-> "qa-tester", type |-> "GENERATE_CODE",
       input |-> EmptyObj, errors |-> << >>] }

InitWorker ==
    /\ \E m \in 1..MaxConc, r \in 0..MaxRetry :
          agents = [a \in DirectAgents |-> NewAgent(a, m, r)]
    /\ currentTasks = [a \in DirectAgents |-> {}]
    /\ subAgents = EmptyRegistry
    /\ registered = << >>
    /\ env = EnvVars
    /\ isInitialized = FALSE
    /\ initError = Undefined
    /\ activeWorkflows = {}
    /\ inputs = << >>
    /\ inputIdx = 1
    /\ workflowId = 0
    /\ steps = << >>
    /\ completedSteps = {}
    /\ calls = [c \in 1..MaxCalls |-> NoCall]
    /\ schedPc = "idle"
    /\ runLog = << >>
    /\ opFailed = FALSE
    /\ nextId = 1

\* the client's call number c: executeTask(task) on worker d.agent, up to
\* the first await of the retry loop
ExecuteTaskDirect(c, d) ==
    /\ c \in DOMAIN calls
    /\ calls[c].pc = "none"
    /\ \A k \in 1..(c - 1) : calls[k].pc # "none"
    /\ LET task == [NewTask(nextId, d.type, d.input) EXCEPT !.errors = d.errors]
           entry == executeTaskEntry(d.agent, task)
       IN  /\ currentTasks' = [currentTasks EXCEPT ![d.agent] = entry.tasks]
           /\ calls' = [calls EXCEPT ![c] =
                  [NoCall EXCEPT
                      !.pc = entry.pc,
                      !.error = entry.error,
                      !.agent = d.agent,
                      !.taskId = task.id,
                      !.type = d.type,
                      !.input = d.input,
                      !.errors = d.errors,
                      !.performCount = IF entry.pc = "perform" THEN 1 ELSE 0]]
    /\ nextId' = nextId + 1
    /\ UNCHANGED <<sysVars, agents, subAgents, activeWorkflows, inputs, inputIdx, workflowId,
                   steps, completedSteps, schedPc, runLog, opFailed>>

NextWorker ==
    \/ \E c \in DOMAIN calls, d \in DirectTasks : ExecuteTaskDirect(c, d)
    \/ \E i \in DOMAIN calls : PerformSucceeds(i)
    \/ \E i \in DOMAIN calls : PerformFails(i)
    \/ \E i \in DOMAIN calls : BackoffDone(i)
    \/ \E a \in DirectAgents : Stop(a)

SpecWorker == InitWorker /\ [][NextWorker]_vars

(* ------------------- AIFrontendAutomationSystem ------------------------ *)
\* baseAgentConfig of initializeSpecializedAgents
SystemMaxConcurrentTasks == 2
SystemRetryAttempts == 3
\* the coordinator's maxConcurrentTasks when MAX_PARALLEL_AGENTS is not set
CoordinatorMaxConcurrentTasks == 3

\* every worker object of the system, a second QA worker included
SystemAgents == AgentIds \cup {"main-coordinator", "qa-tester-2"}
\* the workers a client registers with the coordinator itself
RegisterPool == {"qa-tester", "qa-tester-2", "code-generator"}

\* validateEnvironment(): the required keys that are missing from e; it
\* throws when there are any
validateEnvironment(e) == RequiredVars \ e

\* initializeSpecializedAgents(): the workers it registers, in order
initializeSpecializedAgents(e) ==
    <<"prompt-analyzer">>
        \o (IF OptionalJiraVars \subseteq e THEN <<"jira-analyzer">> ELSE << >>)
        \o <<"figma-designer", "qa-tester">>

RECURSIVE RegisterAll(_, _)
RegisterAll(registry, workers) ==
    IF workers = << >> THEN registry
    ELSE RegisterAll(registerAgent(registry, Head(workers)), Tail(workers))

\* getStatus() of worker a
getStatus(a) ==
    [id |-> a, type |-> agents[a].type, currentTasks |-> currentTasks[a],
     availableCapacity |->
         agents[a].maxConcurrentTasks - Cardinality(currentTasks[a])]

\* getAgentsStatus() of the coordinator; agents is the object it builds, one
\* <<type, status>> entry per key of subAgents
getAgentsStatus ==
    [coordinator |-> getStatus("main-coordinator"),
     agents |-> {<<t, getStatus(subAgents[t])>> :
                    t \in {u \in AgentType : subAgents[u] # NoAgent}},
     activeWorkflows |-> Cardinality(activeWorkflows)]

InitSystem ==
    /\ agents = [a \in SystemAgents |->
                   IF a = "main-coordinator"
                   THEN NewAgent(a, CoordinatorMaxConcurrentTasks, SystemRetryAttempts)
                   ELSE NewAgent(a, SystemMaxConcurrentTasks, SystemRetryAttempts)]
    /\ currentTasks = [a \in SystemAgents |-> {}]
    /\ subAgents = EmptyRegistry
    /\ registered = << >>
    /\ env \in SUBSET EnvVars
    /\ isInitialized = FALSE
    /\ initError = Undefined
    /\ activeWorkflows = {}
    /\ inputs = << >>
    /\ inputIdx = 1
    /\ workflowId = 0
    /\ steps = << >>
    /\ completedSteps = {}
    /\ calls = << >>
    /\ schedPc = "idle"
    /\ runLog = << >>
    /\ opFailed = FALSE
    /\ nextId = 1

\* initialize(): the environment is validated, a coordinator is constructed
\* and the workers are registered with it. Its awaits wait on functions that
\* do not suspend, and nothing else writes what it writes.
Initialize ==
    /\ ~isInitialized
    /\ IF validateEnvironment(env) # {}
       THEN /\ initError' = MissingEnvError
            /\ UNCHANGED <<subAgents, registered, isInitialized>>
       ELSE /\ subAgents' = RegisterAll(EmptyRegistry, initializeSpecializedAgents(env))
            /\ registered' = initializeSpecializedAgents(env)
            /\ isInitialized' = TRUE
            /\ initError' = Undefined
    /\ UNCHANGED <<agents, currentTasks, activeWorkflows, inputs, inputIdx, workflowId,
                   steps, completedSteps, calls, schedPc, runLog, opFailed, nextId, env>>

\* coordinator.registerAgent(a) by a client
RegisterAgent(a) ==
    /\ Len(registered) < MaxRegistrations
    /\ subAgents' = registerAgent(subAgents, a)
    /\ registered' = Append(registered, a)
    /\ UNCHANGED <<agents, currentTasks, activeWorkflows, inputs, inputIdx, workflowId,
                   steps, completedSteps, calls, schedPc, runLog, opFailed, nextId, env,
                   isInitialized, initError>>

NextSystem ==
    \/ Initialize
    \/ \E a \in RegisterPool : RegisterAgent(a)

SpecSystem == InitSystem /\ [][NextSystem]_vars

(* ============================= properties ============================== *)
\* step i has been handed to executeWorkflowStep in this run
Dispatched(i) == steps[i].status # PENDING \/ calls[i].pc # "none"

\* every step carrying the name dep is COMPLETED, and there is one
DependencyCompleted(dep) ==
    /\ \E j \in DOMAIN steps : steps[j].name = dep
    /\ \A j \in DOMAIN steps : steps[j].name = dep => steps[j].status = COMPLETED

\* C1: in executeWorkflowSteps no step is dispatched (handed to
\* executeWorkflowStep, set IN_PROGRESS, given to a worker) before every step
\* named in its dependency list has status COMPLETED.
C1_DependenciesCompleted ==
    \A i \in DOMAIN steps :
        Dispatched(i) =>
            \A k \in DOMAIN steps[i].dependencies :
                DependencyCompleted(steps[i].dependencies[k])

\* a step with two dependencies is executing on its worker
C1_Witness ==
    \E i \in DOMAIN steps :
        /\ steps[i].status = IN_PROGRESS
        /\ calls[i].pc = "perform"
        /\ Len(steps[i].dependencies) >= 2

\* the frontier awaited by the scheduler has settled with a rejected dispatch
FrontierFailed ==
    /\ schedPc = "await"
    /\ \A i \in DOMAIN calls : Settled(calls[i])
    /\ \E i \in DOMAIN calls : calls[i].pc = "rejected"

\* C2: when a step of the dispatched frontier has failed (worker error after
\* the retries, capacity rejection, unsupported operation, missing worker),
\* the scheduler's next move ends the run: executeWorkflowSteps rejects with
\* the step-failed error naming a failed step of that frontier (the first in
\* frontier order), that step is FAILED, and no step is dispatched any more,
\* whatever the siblings of the frontier did.
C2_FailFast ==
    [][ (FrontierFailed /\ <<steps, schedPc, runLog>>' # <<steps, schedPc, runLog>>)
        => /\ schedPc' = "idle"
           /\ runLog' = Append(runLog, runLog'[Len(runLog')])
           /\ LET end == runLog'[Len(runLog')]
              IN  /\ end.outcome = "rejected"
                  /\ end.error = "step failed"
                  /\ \E i \in DOMAIN calls :
                        /\ calls[i].pc = "rejected"
                        /\ \A j \in DOMAIN calls : calls[j].pc = "rejected" => i <= j
                        /\ steps[i].name = end.step
                        /\ calls[i].error = end.reason
                        /\ steps'[i].status = FAILED
           /\ \A i \in DOMAIN calls' : calls'[i].pc = "none"
           /\ \A i \in DOMAIN steps :
                 steps'[i].status = IN_PROGRESS => steps[i].status = IN_PROGRESS
      ]_vars

\* a run has been rejected for a failed step whose frontier sibling succeeded
C2_Witness ==
    /\ schedPc = "idle"
    /\ runLog # << >>
    /\ runLog[Len(runLog)].input = "diamond"
    /\ runLog[Len(runLog)].error = "step failed"
    /\ runLog[Len(runLog)].step = "Generate Code"
    /\ steps[2].status = COMPLETED
    /\ steps[3].status = FAILED

\* number of entries of worker a that are IN_PROGRESS
InProgressCount(a) == Cardinality({t \in currentTasks[a] : t.status = IN_PROGRESS})

\* in this step the call of step i enters executeTask on its worker
EntersExecuteTask(i) ==
    /\ calls[i].pc = "enrich"
    /\ i \in DOMAIN calls'
    /\ calls'[i].pc # "enrich"
    /\ mapStepToTaskType(steps[i].name) # UnknownStepName

\* C3: executeTask rejects with the capacity error exactly when the worker's
\* count of IN_PROGRESS items is at or above maxConcurrentTasks; items that
\* reached COMPLETED, FAILED or CANCELLED do not count.
C3_CapacityCountsInFlight ==
    [][ \A i \in DOMAIN calls :
          EntersExecuteTask(i) =>
            LET a == calls[i].agent
            IN  (calls'[i].error = "capacity")
                  <=> (InProgressCount(a) >= agents[a].maxConcurrentTasks)
      ]_vars

\* every worker type the steps of the batch's graph name has a worker, and
\* the workers make at least one attempt
BatchWellConfigured ==
    /\ \A i \in DOMAIN WorkflowStepsFor(inputs[1]) :
          subAgents[WorkflowStepsFor(inputs[1])[i].agentType] # NoAgent
    /\ \A a \in AgentIds : agents[a].retryAttempts >= 1

\* C4: in a batch of three inputs given to processPrompts or
\* processJiraTasks whose second run fails, the runs of the first and the
\* third input (none of whose operations fails) still execute and complete.
C4_BatchIsolation ==
    ( /\ Len(inputs) >= 3
      /\ inputs[1] \in {"prompt", "jira"}
      /\ inputIdx > Len(inputs)
      /\ Len(runLog) = Len(inputs)
      /\ BatchWellConfigured
      /\ runLog[2].outcome = "rejected"
      /\ ~runLog[1].opFailed
      /\ ~runLog[3].opFailed )
    => /\ runLog[1].outcome = "completed"
       /\ runLog[3].outcome = "completed"

Terminal == {COMPLETED, FAILED, CANCELLED}

\* C5: once an item tracked by a worker is COMPLETED, FAILED or CANCELLED,
\* its status never changes again.
C5_TerminalStatusFinal ==
    [][ \A a \in AgentIds : \A t \in currentTasks[a] :
          t.status \in Terminal =>
            \A u \in currentTasks'[a] : u.id = t.id => u.status = t.status
      ]_vars

\* C6: after stop() has marked the IN_PROGRESS item of a call CANCELLED, the
\* worker invokes performTask no more for it and raises no error to the caller.
C6_NoAttemptAfterStop ==
    [][ \A i \in DOMAIN calls :
          ( /\ calls[i].stopped
            /\ i \in DOMAIN calls'
            /\ calls'[i].taskId = calls[i].taskId )
          => /\ calls'[i].performCount = calls[i].performCount
             /\ (calls'[i].pc = "rejected" => calls[i].pc = "rejected")
      ]_vars

\* the messages of the errors a performTask rejects with
AttemptErrors == {OperationError, NoDesignsError, UnsupportedTaskType}

\* C7: a worker with N >= 1 retry attempts whose operation fails every time
\* has invoked performTask exactly N times when executeTask rejects; the
\* delay slept after failed attempt k is 1000 * k ms, the delays increase
\* strictly, and no delay follows the last failed attempt.
C7_RetryBound ==
    \A i \in DOMAIN calls :
        calls[i].agent # NoAgent =>
            LET N == agents[calls[i].agent].retryAttempts
                delays == calls[i].delays
            IN  /\ \A k \in DOMAIN delays : delays[k] = 1000 * k
                /\ \A k \in 1..(Len(delays) - 1) : delays[k] < delays[k + 1]
                /\ Len(delays) = 0 \/ Len(delays) < N
                /\ calls[i].performCount <= N
                /\ (calls[i].pc = "rejected" /\ calls[i].error \in AttemptErrors)
                      => /\ calls[i].performCount = N
                         /\ calls[i].attempt = N
                         /\ Len(delays) = N - 1

\* a worker with three attempts has failed all of them
C7_Witness ==
    \E i \in DOMAIN calls :
        /\ calls[i].pc = "rejected"
        /\ calls[i].error = OperationError
        /\ calls[i].performCount = 3
        /\ calls[i].delays = <<1000, 2000>>

\* no worker holds more IN_PROGRESS items than its limit, and a call
\* rejected for capacity has invoked nothing and is not tracked
CapacityInv ==
    /\ \A a \in AgentIds : InProgressCount(a) <= agents[a].maxConcurrentTasks
    /\ \A i \in DOMAIN calls :
          calls[i].error = "capacity" =>
            /\ calls[i].pc = "rejected"
            /\ calls[i].performCount = 0
            /\ \A t \in currentTasks[calls[i].agent] : t.id # calls[i].taskId

\* C8: an executeTask call that arrives while the worker already has as many
\* IN_PROGRESS items as its limit fails at once with the capacity error,
\* without invoking performTask and without being added to the tracked
\* items; a worker never has more IN_PROGRESS items than maxConcurrentTasks.
C8_CapacityEnforced ==
    [][ /\ CapacityInv
        /\ CapacityInv'
        /\ \A i \in DOMAIN calls :
              ( /\ EntersExecuteTask(i)
                /\ InProgressCount(calls[i].agent)
                      >= agents[calls[i].agent].maxConcurrentTasks )
              => /\ calls'[i].pc = "rejected"
                 /\ calls'[i].error = "capacity"
                 /\ calls'[i].performCount = 0
                 /\ currentTasks' = currentTasks
      ]_vars

\* a dispatch was rejected for capacity while the worker's limit is in flight
C8_Witness ==
    \E i \in DOMAIN calls :
        /\ calls[i].error = "capacity"
        /\ InProgressCount(calls[i].agent) = agents[calls[i].agent].maxConcurrentTasks
        /\ \E j \in DOMAIN calls : j # i /\ calls[j].pc = "perform"
                                    /\ calls[j].agent = calls[i].agent

StepNames(st) == {st[i].name : i \in DOMAIN st}

DependenciesOf(st, i) == {st[i].dependencies[k] : k \in DOMAIN st[i].dependencies}

\* some step names a dependency that is no step's name
HasDangling(st) ==
    \E i \in DOMAIN st : \E d \in DependenciesOf(st, i) : d \notin StepNames(st)

\* the steps that depend, directly or through other steps, on a dangling name
RECURSIVE DependOnDanglingFrom(_, _)
DependOnDanglingFrom(st, blocked) ==
    LET more == blocked \cup
                  {i \in DOMAIN st :
                      \E d \in DependenciesOf(st, i) :
                          \/ d \notin StepNames(st)
                          \/ \E j \in blocked : st[j].name = d}
    IN  IF more = blocked THEN blocked ELSE DependOnDanglingFrom(st, more)

DependOnDangling(st) == DependOnDanglingFrom(st, {})

\* C9: a graph with a step whose dependency name is no step's name never
\* completes and does not hang: the scheduler never awaits an empty frontier,
\* the run is rejected, and unless a dispatched step failed it is rejected
\* with the deadlock error, raised when the ready frontier is empty while
\* steps remain incomplete and every step that does not transitively depend
\* on the dangling name has been executed (is COMPLETED).
C9_DanglingDeadlock ==
    /\ schedPc = "await" => \E i \in DOMAIN calls : calls[i].pc # "none"
    /\ \A k \in DOMAIN runLog :
          HasDangling(WorkflowStepsFor(runLog[k].input)) =>
            /\ runLog[k].outcome = "rejected"
            /\ runLog[k].error \in {"deadlock", "step failed"}
    /\ (schedPc = "idle" /\ runLog # << >> /\ HasDangling(steps)) =>
          LET end == runLog[Len(runLog)]
          IN  /\ (end.error = "deadlock")
                    <=> (\A i \in DOMAIN steps : steps[i].status # FAILED)
              /\ end.error = "deadlock" =>
                    /\ ReadySteps(steps, completedSteps) = {}
                    /\ Cardinality(completedSteps) < Len(steps)
                    /\ \A i \in DOMAIN steps :
                          IF i \in DependOnDangling(steps)
                          THEN steps[i].status = PENDING
                          ELSE steps[i].status = COMPLETED

\* the run of the dangling graph was rejected with the deadlock error after
\* its two unaffected steps were executed
C9_Witness ==
    /\ schedPc = "idle"
    /\ runLog # << >>
    /\ runLog[Len(runLog)].input = "dangling"
    /\ runLog[Len(runLog)].error = "deadlock"
    /\ steps[1].status = COMPLETED
    /\ steps[2].status = COMPLETED
    /\ steps[3].status = PENDING
    /\ steps[4].status = PENDING

\* C10: a run is in the active-runs registry exactly while it executes:
\* while no executePromptWorkflow / executeJiraWorkflow call is in progress
\* activeWorkflows is empty, and while one is, it holds that run's id only.
C10_RegistryTracksRuns ==
    /\ schedPc = "idle" => (activeWorkflows = {} /\ workflowId = 0)
    /\ schedPc = "await" => (workflowId # 0 /\ activeWorkflows = {workflowId})

\* one run has ended by success and a later one by failure, and the registry
\* is empty
C10_Witness ==
    /\ schedPc = "idle"
    /\ activeWorkflows = {}
    /\ \E k \in DOMAIN runLog : runLog[k].outcome = "completed"
    /\ runLog # << >>
    /\ runLog[Len(runLog)].outcome = "rejected"

\* executeWorkflowStep of step i has found its worker and computed the input
\* it dispatches
InputEnriched(i) == calls[i].pc # "none" /\ calls[i].agent # NoAgent

\* C11: the input dispatched for a step holds one entry per named dependency,
\* keyed by the dependency's name lowercased with whitespace replaced by
\* underscores and valued by the output stored for that dependency, whatever
\* value the dependency's worker returned.
C11_EntryPerDependency ==
    \A i \in DOMAIN calls :
        InputEnriched(i) =>
            \A k \in DOMAIN steps[i].dependencies :
                LET dependency == steps[i].dependencies[k]
                IN  \E d \in DOMAIN steps :
                        /\ steps[d].name = dependency
                        /\ <<EnrichKey(dependency), steps[d].output>> \in calls[i].input

\* the executeTask call of step i returned after exactly failed failed
\* attempts, on a worker whose retry limit is limit
SucceededAfter(i, failed, limit) ==
    /\ calls[i].pc = "fulfilled"
    /\ calls[i].attempt = failed
    /\ agents[calls[i].agent].retryAttempts = limit

\* C12: when the worker of a step fails on attempts 1 and 2 and succeeds on
\* attempt 3 (limit 3), the step completes and its retryCount is 2, the
\* number of failed attempts before the success.
C12_RetryCountRecorded ==
    [][\A i \in DOMAIN calls :
          (/\ SucceededAfter(i, 2, 3)
           /\ steps[i].status = IN_PROGRESS
           /\ steps'[i].status = COMPLETED)
              => steps'[i].retryCount = 2]_vars

\* the executing (or last) run is one of the fixed six-step graphs, in which
\* step 4 is 'Visual QA Testing', step 5 'Create Tests' and step 6 'Create
\* Pull Request'
SixStepRun == Len(steps) = 6 /\ steps[4].name = "Visual QA Testing"

\* C13: in a six-step run whose step 'Visual QA Testing' fails (its worker
\* failing every attempt), the run rejects with an error naming that step,
\* and 'Create Tests' and 'Create Pull Request' stay PENDING: neither is ever
\* dispatched.
C13_DownstreamStaysPending ==
    SixStepRun =>
        /\ (\E i \in {5, 6} : Dispatched(i)) => steps[4].status = COMPLETED
        /\ steps[4].status = FAILED =>
               /\ schedPc = "idle"
               /\ runLog[Len(runLog)].outcome = "rejected"
               /\ runLog[Len(runLog)].error = "step failed"
               /\ runLog[Len(runLog)].step = "Visual QA Testing"
               /\ \A i \in {5, 6} : steps[i].status = PENDING

\* a six-step run has ended because the QA worker, limited to 3 attempts,
\* failed them all
C13_Witness ==
    /\ SixStepRun
    /\ steps[4].status = FAILED
    /\ agents["qa-tester"].retryAttempts = 3
    /\ runLog[Len(runLog)].reason = OperationError
    /\ steps[5].status = PENDING /\ steps[6].status = PENDING

\* the executing (or last) run is the chain A -> B -> C: 'Analyze Prompt',
\* then 'Extract Figma Design', then 'Generate Code' naming only B
ChainRun == Len(steps) = 3 /\ steps[3].dependencies = <<"Extract Figma Design">>

\* the chain run has ended with every worker registered and no attempt failed
ChainEndedCleanly ==
    /\ ChainRun
    /\ schedPc = "idle"
    /\ ~runLog[Len(runLog)].opFailed
    /\ subAgents = RegistryOf(FullRegistered)
    /\ \A a \in AgentIds : agents[a].retryAttempts >= 1

Admitted(i) ==
    /\ calls[i].agent # NoAgent
    /\ calls[i].taskId # 0
    /\ calls[i].error \notin {"capacity", "unsupported"}
    /\ agents[calls[i].agent].retryAttempts >= 1

\* the entries a worker tracks under the id of call i
TrackedItems(i) == {t \in currentTasks[calls[i].agent] : t.id = calls[i].taskId}

\* C15: executeTask returns the operation's result exactly when one of the
\* first N attempts succeeds, the tracked item then being COMPLETED with that
\* result as output; otherwise it rejects with the error of the N-th attempt
\* and the tracked item is FAILED, its error list being the list the item
\* came with followed by that error's message.
C15_ResultOrFinalError ==
    \A i \in DOMAIN calls :
        LET c == calls[i]
            N == agents[c.agent].retryAttempts
        IN  Admitted(i) =>
              /\ c.pc = "fulfilled" =>
                    /\ c.attempt < N
                    /\ c.performCount = c.attempt + 1
                    /\ c.value \in PerformResults(c)
                    /\ \E t \in TrackedItems(i) :
                          t.status = COMPLETED /\ t.output = c.value
              /\ c.pc = "rejected" =>
                    /\ c.attempt = N
                    /\ c.performCount = N
                    /\ c.error \in PerformErrors(c)
                    /\ \E t \in TrackedItems(i) :
                          t.status = FAILED /\ t.errors = Append(c.errors, c.error)

\* one call has returned a result after a failed attempt, another has
\* rejected for a task that came with an earlier error
C15_Witness ==
    \E i, j \in DOMAIN calls :
        /\ Admitted(i) /\ calls[i].pc = "fulfilled" /\ calls[i].attempt >= 1
        /\ Admitted(j) /\ calls[j].pc = "rejected" /\ calls[j].errors # << >>
        /\ agents[calls[j].agent].retryAttempts >= 2

\* the error messages of the two precondition checks of executeTask
PreconditionErrors == {"capacity", "unsupported"}

\* C16: executeTask rejects at once with the unsupported-operation error when
\* no capability of the worker lists the task's type; a call rejected by
\* either precondition leaves the worker's tracked items as they were and
\* never invokes performTask; when both preconditions fail the capacity
\* error is the one reported.
C16_PreconditionsReject ==
    [][\A i \in DOMAIN calls :
          /\ (calls[i].pc = "none" /\ calls'[i].pc # "none") =>
                LET a == calls'[i].agent
                    full == Cardinality(currentTasks[a]) >= agents[a].maxConcurrentTasks
                    unsupported == calls'[i].type \notin agents[a].supportedOperations
                IN  /\ full => calls'[i].error = "capacity"
                    /\ (unsupported /\ ~full) => calls'[i].error = "unsupported"
                    /\ calls'[i].error \in PreconditionErrors <=> (full \/ unsupported)
                    /\ calls'[i].error \in PreconditionErrors =>
                          /\ calls'[i].pc = "rejected"
                          /\ currentTasks' = currentTasks
          /\ calls'[i].error \in PreconditionErrors =>
                /\ calls'[i].pc = "rejected"
                /\ calls'[i].performCount = 0
                /\ \A t \in currentTasks'[calls'[i].agent] : t.id # calls'[i].taskId
      ]_vars

\* both preconditions failed for a call, a task of an unsupported type handed
\* to a full worker, and the call was rejected for capacity
C16_Witness ==
    \E i \in DOMAIN calls :
        /\ calls[i].pc = "rejected"
        /\ calls[i].error = "capacity"
        /\ calls[i].type \notin agents[calls[i].agent].supportedOperations
        /\ currentTasks[calls[i].agent] # {}

\* C18: for every worker, the coordinator included, every task type that
\* passes the capability check of executeTask has a case in the worker's
\* performTask: performTask is never invoked with a type that falls into its
\* unsupported-operation branch.
C18_CapabilitiesHandled ==
    \A i \in DOMAIN calls :
        calls[i].performCount >= 1 =>
            /\ calls[i].type \in HandledOperations(calls[i].agent)
            /\ calls[i].error # UnsupportedTaskType

Max(S) == CHOOSE x \in S : \A y \in S : x >= y

\* the worker of type t handed to registerAgent last, NoAgent when none was
LastRegistered(t) ==
    LET of == {k \in DOMAIN registered : AgentClass(registered[k]).type = t}
    IN  IF of = {} THEN NoAgent ELSE registered[Max(of)]

\* C17: after any sequence of registerAgent calls the coordinator holds at
\* most one worker per worker type, and the worker it holds for a type, and
\* reports for it in getAgentsStatus, is the one registered last for that
\* type; a registration of another type does not change it.
C17_LatestRegistrationWins ==
    /\ \A t \in AgentType : subAgents[t] = LastRegistered(t)
    /\ getAgentsStatus.agents =
            {<<t, getStatus(LastRegistered(t))>> :
                t \in {u \in AgentType : LastRegistered(u) # NoAgent}}
    /\ \A t \in AgentType :
            Cardinality({e \in getAgentsStatus.agents : e[1] = t}) <= 1

\* a second QA worker has replaced the first, a code generator registered in
\* between being still held
C17_Witness ==
    /\ registered = <<"qa-tester", "code-generator", "qa-tester-2">>
    /\ subAgents["QA_TESTER"] = "qa-tester-2"
    /\ subAgents["CODE_GENERATOR"] = "code-generator"

\* the optional integrations: the configuration keys of each and the type of
\* its worker (issue tracker, design tool, source-control host)
OptionalIntegrations ==
    { [keys |-> OptionalJiraVars, type |-> "JIRA_ANALYZER"],
      [keys |-> {"FIGMA_ACCESS_TOKEN"}, type |-> "FIGMA_DESIGNER"],
      [keys |-> {"GITHUB_TOKEN"}, type |-> "GITHUB_MANAGER"] }

\* initialize() has run to its end
InitializeReturned == isInitialized \/ initError # Undefined

\* C20: when the configuration of an optional integration is absent at
\* initialize(), initialize() still succeeds and the worker of that
\* integration is not registered with the coordinator.
C20_OptionalIntegrationsDegrade ==
    (InitializeReturned /\ RequiredVars \subseteq env) =>
        /\ isInitialized
        /\ \A g \in OptionalIntegrations :
               ~(g.keys \subseteq env) => subAgents[g.type] = NoAgent

\* C19: the design extraction worker, when it resolves none of the design
\* references it is given, returns the empty result instead of failing: for
\* every number of references its input may carry, resolving none of them
\* yields the empty result, and no call of it fails for want of designs.
C19_EmptyResultOnTotalFailure ==
    \A i \in DOMAIN calls :
        (calls[i].agent = "figma-designer" /\ calls[i].performCount >= 1) =>
            /\ \A links \in LinksOf(calls[i].input) :
                   extractFigmaDesigns(links, 0) = [ok |-> TRUE, value |-> EmptyResult]
            /\ calls[i].error # NoDesignsError

(* ------------------------ frontier dispatch ---------------------------- *)
\* step i is dispatched by the step taken: its executeWorkflowStep call
\* starts
DispatchedNow(i) ==
    /\ calls'[i].pc # "none"
    /\ (i \notin DOMAIN calls \/ calls[i].pc = "none")

\* the steps that are ready in the state reached
ReadyNext ==
    {j \in DOMAIN steps' :
        /\ steps'[j].status = PENDING
        /\ \A k \in DOMAIN steps'[j].dependencies :
               steps'[j].dependencies[k] \in completedSteps'}

\* C21: the steps that are ready in the same frontier are all dispatched
\* before any of them is awaited, and no step of a later frontier is
\* dispatched until every dispatch of the current frontier has settled.
C21_FrontierDispatchedTogether ==
    [][\A i \in DOMAIN calls' :
          DispatchedNow(i) =>
             /\ \A j \in DOMAIN calls : calls[j].pc \in {"none", "fulfilled", "rejected"}
             /\ \A j \in ReadyNext : calls'[j].pc # "none"
             /\ schedPc' = "await"]_vars

\* two steps of one frontier are in flight, one settled and one not, and
\* a frontier of this run settled before
C21_Witness ==
    /\ schedPc = "await"
    /\ completedSteps # {}
    /\ \E i, j \in DOMAIN calls :
          /\ calls[i].pc = "fulfilled"
          /\ calls[j].pc \in {"enrich", "perform", "backoff"}

\* executeWorkflowSteps returns or rejects in the step taken
RunEnds == schedPc = "await" /\ schedPc' = "idle"

\* C22: when executeWorkflowSteps returns or rejects after a frontier has
\* settled, every step of that frontier is terminal: each fulfilled step is
\* COMPLETED with its output stored, each rejected step is FAILED, and no
\* step is left IN_PROGRESS.
C22_FrontierStepsTerminal ==
    [][RunEnds =>
          \A i \in DOMAIN calls :
              /\ calls[i].pc = "fulfilled" =>
                     /\ steps'[i].status = COMPLETED
                     /\ steps'[i].output = calls[i].value
              /\ calls[i].pc = "rejected" => steps'[i].status = FAILED
              /\ steps'[i].status # IN_PROGRESS]_vars

\* C23: enrichment never removes or changes an entry of the step's own
\* declared input: every entry of step.input is in the input the step is
\* dispatched with, whatever the step's name and declared input, and
\* step.input itself stays as the graph declared it.
C23_DeclaredInputKept ==
    \A i \in DOMAIN calls :
        InputEnriched(i) =>
            /\ steps[i].input \subseteq calls[i].input
            /\ steps[i].input = WorkflowStepsFor(inputs[inputIdx])[i].input

\* The numbers of design links the output of an initial analysis may carry
\* in its figmaLinks field: both analysis workers return one
FoundLinks(output) == IF output = ResultObj THEN 0..MaxLinks ELSE {0}

\* C24: in both run types the design extraction step consumes the output of
\* the initial analysis: the design links the analysis found are the ones
\* the design extraction worker reads from its enriched input.
C24_DesignLinksFromAnalysis ==
    \A i \in DOMAIN calls :
        (SixStepRun /\ calls[i].agent = "figma-designer"
                    /\ calls[i].performCount >= 1) =>
            LinksOf(calls[i].input) = FoundLinks(steps[1].output)

(* ------------------------ tracked-item map ------------------------------ *)
\* the keys of a currentTasks map
TaskIds(tasks) == {t.id : t \in tasks}

\* C25: the entries of a worker's tracked-item map are never removed, not
\* even by stop(): the size of the map never decreases and never exceeds
\* maxConcurrentTasks, and executeTask admits a new item only while the size
\* is below the limit, so a worker accepts at most maxConcurrentTasks
\* distinct items over its lifetime.
C25_TrackedItemsNeverRemoved ==
    [][\A a \in DOMAIN currentTasks :
          /\ TaskIds(currentTasks[a]) \subseteq TaskIds(currentTasks'[a])
          /\ Cardinality(currentTasks'[a]) >= Cardinality(currentTasks[a])
          /\ Cardinality(currentTasks'[a]) <= agents[a].maxConcurrentTasks
          /\ TaskIds(currentTasks'[a]) # TaskIds(currentTasks[a]) =>
                 Cardinality(currentTasks[a]) < agents[a].maxConcurrentTasks]_vars

\* a worker's map is full of finished items, one of them cancelled by
\* stop(), and a later item was refused for capacity
C25_Witness ==
    \E a \in DOMAIN currentTasks :
        /\ agents[a].maxConcurrentTasks >= 2
        /\ Cardinality(currentTasks[a]) = agents[a].maxConcurrentTasks
        /\ \A t \in currentTasks[a] : t.status # IN_PROGRESS
        /\ \E t \in currentTasks[a] : t.status = CANCELLED
        /\ \E i \in DOMAIN calls : calls[i].error = "capacity"

(* --------------------------- termination -------------------------------- *)
\* the while loop of executeWorkflowSteps finishes an iteration in the step
\* taken: the settled frontier is processed
IterationEnds ==
    /\ schedPc = "await"
    /\ \A i \in DOMAIN calls : calls[i].pc \in {"none", "fulfilled", "rejected"}
    /\ <<steps, completedSteps, schedPc>>' # <<steps, completedSteps, schedPc>>

\* C26: every call of executeWorkflowSteps terminates, provided each
\* executeTask call settles: each iteration of its loop either rejects the
\* run or adds at least one new name to the completed set, so the run ends,
\* with every step COMPLETED or with a rejection, after at most as many
\* frontiers as there are steps.
C26_RunTerminates ==
    /\ [][IterationEnds =>
             \/ /\ schedPc' = "idle"
                /\ runLog'[Len(runLog')].outcome = "rejected"
             \/ /\ completedSteps \subseteq completedSteps'
                /\ Cardinality(completedSteps') > Cardinality(completedSteps)
                /\ Cardinality(completedSteps') <= Len(steps')
                /\ schedPc' = "idle" =>
                       /\ runLog'[Len(runLog')].outcome = "completed"
                       /\ \A i \in DOMAIN steps' : steps'[i].status = COMPLETED]_vars
    /\ (schedPc = "await") ~> (schedPc = "idle")

\* a run that went through three frontiers has returned with all its steps
\* COMPLETED
C26_Witness ==
    /\ schedPc = "idle"
    /\ runLog # << >>
    /\ runLog[Len(runLog)].outcome = "completed"
    /\ Cardinality(completedSteps) >= 3

(* ---------------------- runs of an initialized system ------------------- *)
\* the registries initialize() leaves behind: the one of index.ts, and the
\* one of initializeSpecializedAgents for every configuration it accepts
InitializedRegistries ==
    {RegistryOf(IndexRegistered)} \cup
        {RegisterAll(EmptyRegistry, initializeSpecializedAgents(e)) :
            e \in {x \in SUBSET EnvVars : RequiredVars \subseteq x}}

\* the last run ended and no worker's executeTask rejected in it
RunEndedWithoutWorkerFailure ==
    /\ schedPc = "idle"
    /\ runLog # << >>
    /\ runLog[Len(runLog)].reason \in {"none", "no agent registered"}

\* C27: in a system set up by initialize(), every worker type a step of the
\* fixed six-step graph names has a worker registered when the step is
\* dispatched, so a run whose workers all succeed reaches COMPLETED on all
\* six steps.
C27_InitializedSystemCompletesRun ==
    (subAgents \in InitializedRegistries /\ SixStepRun) =>
        /\ \A i \in DOMAIN calls : calls[i].error # "no agent registered"
        /\ RunEndedWithoutWorkerFailure =>
               \A i \in DOMAIN steps : steps[i].status = COMPLETED

(* --------------------------- step status path --------------------------- *)
\* the status changes of the steps of the executing run in the step taken
StatusChanges ==
    IF schedPc = "await"
    THEN {[step |-> i, from |-> steps[i].status, to |-> steps'[i].status] :
             i \in {j \in DOMAIN steps : steps'[j].status # steps[j].status}}
    ELSE {}

\* the dispatch of step i failed before executeTask was entered: no worker
\* is registered for its type, or its name has no task type
FailedBeforeExecuteTask(i) ==
    calls[i].error \in {"no agent registered", UnknownStepName}

\* C28 as stated: a step's status only moves PENDING -> IN_PROGRESS ->
\* {COMPLETED, FAILED}: it never becomes FAILED or COMPLETED without first
\* being IN_PROGRESS, also when no worker is registered for its type or its
\* name has no task type, and a COMPLETED or FAILED step never changes
\* again.
C28_StatusPathThroughInProgress ==
    [][\A c \in StatusChanges :
          <<c.from, c.to>> \in {<<PENDING, IN_PROGRESS>>,
                                <<IN_PROGRESS, COMPLETED>>,
                                <<IN_PROGRESS, FAILED>>}]_vars

\* C28 amended: a step's status only moves forward along PENDING ->
\* IN_PROGRESS -> {COMPLETED, FAILED}; a step becomes COMPLETED only from
\* IN_PROGRESS, and FAILED from IN_PROGRESS or, when its dispatch failed
\* before executeTask was entered (no worker registered, no task type for
\* its name), directly from PENDING; a COMPLETED or FAILED step never
\* changes again.
C28_StatusMovesForward ==
    [][\A c \in StatusChanges :
          \/ <<c.from, c.to>> \in {<<PENDING, IN_PROGRESS>>,
                                   <<IN_PROGRESS, COMPLETED>>,
                                   <<IN_PROGRESS, FAILED>>}
          \/ /\ <<c.from, c.to>> = <<PENDING, FAILED>>
             /\ FailedBeforeExecuteTask(c.step)]_vars

\* a run ended on a step that is FAILED because its name has no task type,
\* and the step's worker never tracked an item
C28_Witness ==
    /\ schedPc = "idle"
    /\ runLog # << >>
    /\ runLog[Len(runLog)].reason = UnknownStepName
    /\ \E i \in DOMAIN steps :
          /\ steps[i].status = FAILED
          /\ steps[i].name = runLog[Len(runLog)].step
          /\ currentTasks[subAgents[steps[i].agentType]] = {}

(* ------------------------- the fixed graph's order ----------------------- *)
\* the steps whose executeWorkflowStep call belongs to the awaited frontier
FrontierCalls == {i \in DOMAIN calls : calls[i].pc # "none"}

\* C29: in the fixed six-step graph, of either run type, every ready
\* frontier holds exactly one step, so the steps execute strictly in the
\* order A, B, C, D, E, F and no two steps of one run are IN_PROGRESS at the
\* same time.
C29_SixStepsOneAtATime ==
    SixStepRun =>
        /\ schedPc = "await" => Cardinality(FrontierCalls) = 1
        /\ Cardinality({i \in DOMAIN steps : steps[i].status = IN_PROGRESS}) <= 1
        /\ \A i \in DOMAIN steps :
               Dispatched(i) =>
                   \A j \in 1..(i - 1) : steps[j].status = COMPLETED

\* the last step of a six-step run is executing, alone
C29_Witness ==
    /\ SixStepRun
    /\ steps[6].status = IN_PROGRESS
    /\ calls[6].pc = "perform"

(* ------------------------- retryAttempts <= 0 --------------------------- *)
\* C30: for a worker configured with retryAttempts <= 0, executeTask on an
\* admissible item rejects without ever invoking performTask, and the
\* tracked item ends in a terminal status: it is not left IN_PROGRESS after
\* the rejection.
C30_NoRetriesRejectsCleanly ==
    \A i \in DOMAIN calls :
        (/\ calls[i].agent # NoAgent
         /\ calls[i].taskId # 0
         /\ calls[i].error \notin PreconditionErrors
         /\ agents[calls[i].agent].retryAttempts <= 0
         /\ calls[i].pc \notin {"none", "enrich"}) =>
            /\ calls[i].pc = "rejected"
            /\ calls[i].performCount = 0
            /\ \A t \in TrackedItems(i) : t.status \in {COMPLETED, FAILED, CANCELLED}
====
